---- MODULE Spec2Model ----
(***************************************************************************)
(* SimpleWatchdog (sw_watchdog/src/simple_watchdog.cpp): a lifecycle node  *)
(* that caches heartbeats in a message_filters::Cache and, on a liveliness *)
(* change reported for its heartbeat subscription, looks in the cache for  *)
(* the lost publisher and publishes a Status message.                      *)
(*                                                                         *)
(* Time is counted in whole seconds (header.stamp.sec, now.seconds()).     *)
(* The lifecycle state and the legality of a transition are those of the   *)
(* rclcpp_lifecycle::LifecycleNode base class; the effect of a transition  *)
(* is the on_* callback of the source.                                     *)
(***************************************************************************)
EXTENDS Integers, Sequences, FiniteSets, TLC

\* ------------------------------------------------------------------ bounds
\* Heartbeats delivered in one behaviour of Spec.
MaxHeartbeats == 2
\* Largest clock value.
MaxTime == 1
\* Liveliness events raised in one behaviour.
MaxEvents == 2
\* Calls of on_activate in one behaviour (each registers one more callback).
MaxActivations == 2
\* SpecCache: heartbeats delivered beyond the cache size.
MaxExtra == 2
\* SpecCache: heartbeats whose stamp is older than one already delivered.
MaxLate == 1
\* SpecDiag: heartbeats delivered in one behaviour.
MaxDiagHeartbeats == 5

\* --------------------------------------------------------------- constants
\* heartbeat_cache.setCacheSize(25)
CacheSize == 25
\* second component of the initial value of result in check_messages_in_cache:
\* 10000000000 ns, in the unit of diff_last_msg_to_now (1000000001 ns per second
\* of silence), rounded up: for a whole number d of seconds,
\* d * 1000000001 < 10000000000 exactly when d < 10.
InitialResultDiff == 10
\* first component of the initial value of result in check_messages_in_cache
NoNodeId == -1

\* checkpoint_id values of the heartbeats; the code keys its map by int
EntityIds == {-1, 1}
\* checkpoint_id values of the heartbeats of SpecDiag
DiagEntityIds == {-1, 1, 2}
\* alive_count_change values of a QOSLivelinessChangedInfo
AliveCountChanges == {-1, 0, 1}

VARIABLES
    lifecycle_state,   \* state of the LifecycleNode base class
    running,           \* FALSE once the process has been ended by an escaped exception or a fault
    autostart_,        \* --activate
    enable_pub_,       \* --publish
    heartbeat_sub_,    \* TRUE when the liveliness-monitored subscription exists
    failure_pub_,      \* "null", "inactive" (created, disabled) or "activated"
    heartbeat_cache,   \* content of the message_filters::Cache, front first
    cache_callbacks,   \* number of callbacks registered on heartbeat_cache
    now,               \* the node's clock
    pending,           \* liveliness events raised for heartbeat_sub_ and not yet handled
    handled,           \* number of liveliness events the callback has handled
    last,              \* what the most recent liveliness callback did
    sink,              \* Status messages handed to the "failure" topic
    last_request,      \* the latest transition requested from outside, and its result
    snapshot_call,     \* the calls of line 114 made so far by a running diagnosis
    arrivals           \* every heartbeat delivered so far, in arrival order

vars == <<lifecycle_state, running, autostart_, enable_pub_, heartbeat_sub_, failure_pub_,
          heartbeat_cache, cache_callbacks, now, pending, handled, last, sink,
          last_request, snapshot_call, arrivals>>

node_vars == <<lifecycle_state, heartbeat_sub_, failure_pub_, cache_callbacks>>
data_vars == <<heartbeat_cache, now, arrivals>>
flag_vars == <<autostart_, enable_pub_>>
event_vars == <<pending, handled, last, sink>>

\* ------------------------------------------------------------------ helpers
Min(S) == CHOOSE x \in S : \A y \in S : x <= y
Max(S) == CHOOSE x \in S : \A y \in S : x >= y
Last(s) == s[Len(s)]

\* A Heartbeat message: header.stamp.sec and checkpoint_id.
Heartbeat(id, sec) == [checkpoint_id |-> id, stamp |-> sec]

\* ------------------------------------------------- message_filters::Cache
\* Cache::add without the loop that drops the front element.
cache_add_keep_all(cache, m) ==
    LET k == Max({0} \cup {i \in 1..Len(cache) : cache[i].stamp <= m.stamp})
    IN  SubSeq(cache, 1, k) \o <<m>> \o SubSeq(cache, k + 1, Len(cache))

\* Cache::add: pop the front while size >= cache size, then insert the message
\* behind the last element whose stamp is not later than its own.
cache_add(cache, m) ==
    LET popped == IF Len(cache) >= CacheSize
                  THEN SubSeq(cache, Len(cache) - CacheSize + 2, Len(cache))
                  ELSE cache
        k == Max({0} \cup {i \in 1..Len(popped) : popped[i].stamp <= m.stamp})
    IN  SubSeq(popped, 1, k) \o <<m>> \o SubSeq(popped, k + 1, Len(popped))

\* Cache::getOldestTime / getLatestTime: a default Time (0) on an empty cache.
getOldestTime(cache) == IF cache = <<>> THEN 0 ELSE cache[1].stamp
getLatestTime(cache) == IF cache = <<>> THEN 0 ELSE Last(cache).stamp

\* Cache::getInterval: skip the elements stamped before start, then take the
\* elements stamped up to end.
getInterval(cache, start, end) ==
    LET n == Len(cache)
        start_index == Min({n + 1} \cup {i \in 1..n : cache[i].stamp >= start})
        end_index == Min({n + 1} \cup {i \in start_index..n : cache[i].stamp > end})
    IN  SubSeq(cache, start_index, end_index - 1)

\* --------------------------------------------------- check_messages_in_cache
\* The messages of a sequence that carry checkpoint_id id, in their order.
RECURSIVE messages_of(_, _)
messages_of(messages, id) ==
    IF messages = <<>> THEN <<>>
    ELSE LET rest == messages_of(Tail(messages), id)
         IN  IF Head(messages).checkpoint_id = id THEN <<Head(messages)>> \o rest ELSE rest

\* node_id_list: checkpoint_id -> the messages of that id found in the cache.
node_id_list(messages) ==
    [id \in {messages[i].checkpoint_id : i \in 1..Len(messages)} |-> messages_of(messages, id)]

\* intervall_between_msgs: element i subtracts stamp.sec of message i from
\* itself and stamp.nanosec of message i-1 from itself.
intervall_between_msgs(msgs) ==
    [i \in 1..(Len(msgs) - 1) |->
        (msgs[i + 1].stamp - msgs[i + 1].stamp) * 1000000000 + (0 - 0)]

\* Keys of node_avg_time_inervall_map: one per key of node_id_list.  The mapped
\* averages (0 for two or more messages, the conversion of 0.0/0 for a single
\* message) are never read by the selection loop.
node_avg_time_inervall_map_keys(list) == DOMAIN list

\* diff_last_msg_to_now, in units of 1000000001 ns:
\* (now - sec) * 1000000000 + (now - sec).
diff_last_msg_to_now(msgs, t) == t - Last(msgs).stamp

\* The selection loop over the map in key order: the pair built at line 150
\* is a new local that shadows result, so the outer result is left as it was.
RECURSIVE select_result(_, _, _, _)
select_result(keys, list, t, result) ==
    IF keys = {} THEN result
    ELSE LET k == Min(keys)
             d == diff_last_msg_to_now(list[k], t)
             shadow == IF d < result[2] THEN <<k, d>> ELSE result
         IN  select_result(keys \ {k}, list, t, result)

\* check_messages_in_cache at time t: threw is TRUE when node_id_list.at()
\* raises std::out_of_range; otherwise ret is the value returned and
\* lost_message the message written through the pointer.
check_messages_in_cache(cache, t) ==
    LET messages_in_cache == getInterval(cache, getOldestTime(cache), getLatestTime(cache))
        list == node_id_list(messages_in_cache)
        result == select_result(node_avg_time_inervall_map_keys(list), list, t,
                                <<NoNodeId, InitialResultDiff>>)
    IN  IF result[1] \in DOMAIN list
        THEN [threw |-> FALSE, ret |-> FALSE, lost_message |-> Last(list[result[1]])]
        ELSE [threw |-> TRUE, ret |-> FALSE, lost_message |-> Heartbeat(0, 0)]

\* ------------------------------------------------------------ publish_failure
\* The Status message built by publish_failure.
Status(lost_message, t) == [missed_number |-> lost_message.checkpoint_id, stamp |-> t]

\* LifecyclePublisher::publish, had it handed the message on while disabled.
publish_always(pub, msgs, msg) == IF pub = "null" THEN msgs ELSE Append(msgs, msg)

\* failure_pub_->publish(msg): a lifecycle publisher hands the message to the
\* topic only while activated.
publish(pub, msgs, msg) == IF pub = "activated" THEN Append(msgs, msg) ELSE msgs

\* ------------------------------------------------------- lifecycle callbacks
\* on_configure: failure_pub_ = create_publisher(...) when enable_pub_.
on_configure_failure_pub(pub, en) == IF en THEN "inactive" ELSE pub

\* on_activate: failure_pub_->on_activate() when enable_pub_.
on_activate_failure_pub(pub, en) == IF en /\ pub # "null" THEN "activated" ELSE pub

\* on_activate without the creation of heartbeat_sub_.
on_activate_no_heartbeat_sub(sub) == sub

\* on_activate: heartbeat_sub_ is created unless it exists.
on_activate_heartbeat_sub(sub) == IF ~sub THEN TRUE ELSE sub

\* on_activate: heartbeat_cache.registerCallback(...) adds one callback.
on_activate_cache_callbacks(n) == n + 1

\* on_deactivate that leaves the publisher as it is.
on_deactivate_keep_failure_pub(pub, en) == pub

\* on_deactivate: failure_pub_->on_deactivate() when enable_pub_.
on_deactivate_failure_pub(pub, en) == IF en /\ pub # "null" THEN "inactive" ELSE pub

\* on_deactivate and on_shutdown without the reset of heartbeat_sub_.
keep_heartbeat_sub(sub) == sub

\* on_deactivate and on_shutdown: heartbeat_sub_.reset(); heartbeat_sub_ = nullptr.
reset_heartbeat_sub(sub) == FALSE

\* on_cleanup: failure_pub_.reset().
on_cleanup_failure_pub(pub) == "null"

\* on_shutdown that leaves failure_pub_ as it is.
on_shutdown_keep_failure_pub(pub) == pub

\* on_shutdown: failure_pub_.reset().
on_shutdown_failure_pub(pub) == "null"

\* The transitions of a lifecycle node that can be requested.
Transitions == {"configure", "activate", "deactivate", "cleanup", "shutdown"}

\* The transition table of the lifecycle base class, had it let activate()
\* through in Unconfigured.
transition_legal_unordered(request, state) ==
    \/ request = "configure" /\ state = "Unconfigured"
    \/ request = "activate" /\ state \in {"Unconfigured", "Inactive"}
    \/ request = "deactivate" /\ state = "Active"
    \/ request = "cleanup" /\ state = "Inactive"
    \/ request = "shutdown" /\ state \in {"Unconfigured", "Inactive", "Active"}

\* The transition table of the lifecycle base class: the states in which a
\* requested transition is carried out (its on_* callback called).
transition_legal(request, state) ==
    \/ request = "configure" /\ state = "Unconfigured"
    \/ request = "activate" /\ state = "Inactive"
    \/ request = "deactivate" /\ state = "Active"
    \/ request = "cleanup" /\ state = "Inactive"
    \/ request = "shutdown" /\ state \in {"Unconfigured", "Inactive", "Active"}

\* No transition has been requested from outside yet.
NoRequest == [request |-> "none", result |-> "none"]

\* A requested transition whose callback returned SUCCESS.
Succeeded(request) == [request |-> request, result |-> "SUCCESS"]

\* No diagnosis is reading the cache: oldest and latest hold the time a call
\* returned once it has, held the cache contents there were during the call.
NoSnapshot == [pc |-> "idle", oldest |-> <<>>, latest |-> <<>>, messages |-> <<>>,
               held |-> {}]

\* What the liveliness callback did last; "none" before the first event.
NoCallback == [change |-> 0, state |-> "none", diagnosed |-> FALSE,
               outcome |-> "none", lost |-> NoNodeId]

\* ------------------------------------------------------------------- Init
\* The state the constructor leaves: the cache subscription exists and the
\* cache is empty; with --activate, configure() and activate() have run.
\* The cast of the lifecycle node to rclcpp::Node* in subscribe() is undefined:
\* the constructor either completes or the process ends in it.
Init ==
    /\ autostart_ \in BOOLEAN
    /\ enable_pub_ \in BOOLEAN
    /\ running \in BOOLEAN
    /\ lifecycle_state = IF autostart_ /\ running THEN "Active" ELSE "Unconfigured"
    /\ heartbeat_sub_ = IF autostart_ /\ running THEN on_activate_heartbeat_sub(FALSE) ELSE FALSE
    /\ failure_pub_ = IF autostart_ /\ running
                      THEN on_activate_failure_pub(on_configure_failure_pub("null", enable_pub_),
                                                   enable_pub_)
                      ELSE "null"
    /\ cache_callbacks = IF autostart_ /\ running THEN on_activate_cache_callbacks(0) ELSE 0
    /\ heartbeat_cache = <<>>
    /\ now = 0
    /\ pending = <<>>
    /\ handled = 0
    /\ last = NoCallback
    /\ sink = <<>>
    /\ last_request = NoRequest
    /\ snapshot_call = NoSnapshot
    /\ arrivals = <<>>

\* ---------------------------------------------------------------- actions
\* The clock advances.
Tick ==
    /\ running
    /\ now < MaxTime
    /\ now' = now + 1
    /\ UNCHANGED <<running, node_vars, flag_vars, snapshot_call, event_vars, heartbeat_cache, arrivals,
                   last_request>>

\* A heartbeat is delivered to heartbeat_cache_sub, which exists from the
\* constructor on whatever the lifecycle state is, and added to the cache.
heartbeat_received(m) ==
    /\ running
    /\ heartbeat_cache' = cache_add(heartbeat_cache, m)
    /\ arrivals' = Append(arrivals, m)
    /\ UNCHANGED <<running, node_vars, flag_vars, snapshot_call, event_vars, last_request>>

\* A heartbeat stamped with the current time arrives.
HeartbeatArrives ==
    /\ Len(arrivals) < MaxHeartbeats
    /\ \E id \in EntityIds : heartbeat_received(Heartbeat(id, now))
    /\ now' = now

\* configure(): legal in Unconfigured; on_configure returns SUCCESS.
configure ==
    /\ running
    /\ transition_legal("configure", lifecycle_state)
    /\ lifecycle_state' = "Inactive"
    /\ failure_pub_' = on_configure_failure_pub(failure_pub_, enable_pub_)
    /\ last_request' = Succeeded("configure")
    /\ UNCHANGED <<running, heartbeat_sub_, cache_callbacks, flag_vars, snapshot_call, event_vars, data_vars>>

\* activate(): legal in Inactive; on_activate returns SUCCESS.
activate ==
    /\ running
    /\ transition_legal("activate", lifecycle_state)
    /\ cache_callbacks < MaxActivations
    /\ lifecycle_state' = "Active"
    /\ heartbeat_sub_' = on_activate_heartbeat_sub(heartbeat_sub_)
    /\ cache_callbacks' = on_activate_cache_callbacks(cache_callbacks)
    /\ failure_pub_' = on_activate_failure_pub(failure_pub_, enable_pub_)
    /\ running' = ~(enable_pub_ /\ failure_pub_ = "null")
    /\ last_request' = Succeeded("activate")
    /\ UNCHANGED <<flag_vars, snapshot_call, event_vars, data_vars>>

\* An event raised for a subscription that is then destroyed is either still
\* handled (the executor already holds its handler) or lost with it.
events_after_reset(events) == {events, <<>>}

\* deactivate(): legal in Active; on_deactivate returns SUCCESS.
deactivate ==
    /\ running
    /\ transition_legal("deactivate", lifecycle_state)
    /\ lifecycle_state' = "Inactive"
    /\ heartbeat_sub_' = reset_heartbeat_sub(heartbeat_sub_)
    /\ failure_pub_' = on_deactivate_failure_pub(failure_pub_, enable_pub_)
    /\ running' = ~(enable_pub_ /\ failure_pub_ = "null")
    /\ pending' \in events_after_reset(pending)
    /\ last_request' = Succeeded("deactivate")
    /\ UNCHANGED <<cache_callbacks, flag_vars, snapshot_call, handled, last, sink, data_vars>>

\* cleanup(): legal in Inactive; on_cleanup returns SUCCESS.
cleanup ==
    /\ running
    /\ transition_legal("cleanup", lifecycle_state)
    /\ lifecycle_state' = "Unconfigured"
    /\ failure_pub_' = on_cleanup_failure_pub(failure_pub_)
    /\ last_request' = Succeeded("cleanup")
    /\ UNCHANGED <<running, heartbeat_sub_, cache_callbacks, flag_vars, snapshot_call, event_vars, data_vars>>

\* shutdown(): legal in Unconfigured, Inactive and Active; on_shutdown returns SUCCESS.
shutdown ==
    /\ running
    /\ transition_legal("shutdown", lifecycle_state)
    /\ lifecycle_state' = "Finalized"
    /\ heartbeat_sub_' = reset_heartbeat_sub(heartbeat_sub_)
    /\ failure_pub_' = on_shutdown_failure_pub(failure_pub_)
    /\ pending' \in events_after_reset(pending)
    /\ last_request' = Succeeded("shutdown")
    /\ UNCHANGED <<running, cache_callbacks, flag_vars, snapshot_call, handled, last, sink, data_vars>>

\* A transition is requested in a state in which the lifecycle base class does
\* not offer it: the request fails and no on_* callback is called.
rejected_request ==
    /\ running
    /\ \E request \in Transitions :
          /\ ~transition_legal(request, lifecycle_state)
          /\ last_request' = [request |-> request, result |-> "ERROR"]
    /\ UNCHANGED <<running, node_vars, flag_vars, snapshot_call, event_vars, data_vars>>

\* The middleware reports a liveliness change for heartbeat_sub_.  The change
\* is a status of the subscription: one event is outstanding until it is taken.
LivelinessChanged ==
    /\ running
    /\ heartbeat_sub_
    /\ pending = <<>>
    /\ handled < MaxEvents
    /\ \E c \in AliveCountChanges : pending' = Append(pending, c)
    /\ UNCHANGED <<running, node_vars, flag_vars, snapshot_call, handled, last, sink, data_vars,
                   last_request>>

\* The test of the callback, had it been alive_count_change < 0.
lost_liveliness_strict(alive_count_change) == alive_count_change < 0

\* The test of the callback on the event: alive_count_change <= 0.
lost_liveliness(alive_count_change) == alive_count_change <= 0

\* publish_failure(lost_message): builds the Status message and calls
\* failure_pub_->publish().  On a null failure_pub_ the call is undefined: the
\* process faults or the call has no effect.
publish_failure(event, lost_message) ==
    IF failure_pub_ = "null"
    THEN /\ running' \in BOOLEAN
         /\ sink' = sink
         /\ last' = [change |-> event, state |-> lifecycle_state, diagnosed |-> TRUE,
                     outcome |-> "publish_on_null", lost |-> lost_message.checkpoint_id]
    ELSE /\ running' = running
         /\ sink' = publish(failure_pub_, sink, Status(lost_message, now))
         /\ last' = [change |-> event, state |-> lifecycle_state, diagnosed |-> TRUE,
                     outcome |-> IF failure_pub_ = "activated" THEN "published"
                                 ELSE "publisher_disabled",
                     lost |-> lost_message.checkpoint_id]

\* The liveliness callback set in on_configure handles the oldest pending event.
liveliness_callback ==
    /\ running
    /\ pending # <<>>
    /\ pending' = Tail(pending)
    /\ handled' = handled + 1
    /\ LET event == Head(pending)
           r == check_messages_in_cache(heartbeat_cache, now)
       IN  IF lost_liveliness(event)
           THEN IF r.threw
                THEN /\ running' = FALSE
                     /\ sink' = sink
                     /\ last' = [change |-> event, state |-> lifecycle_state,
                                 diagnosed |-> TRUE, outcome |-> "out_of_range",
                                 lost |-> NoNodeId]
                ELSE IF ~r.ret
                     THEN publish_failure(event, r.lost_message)
                     ELSE /\ running' = running
                          /\ sink' = sink
                          /\ last' = [change |-> event, state |-> lifecycle_state,
                                      diagnosed |-> TRUE, outcome |-> "not_published",
                                      lost |-> r.lost_message.checkpoint_id]
           ELSE /\ running' = running
                /\ sink' = sink
                /\ last' = [change |-> event, state |-> lifecycle_state,
                            diagnosed |-> FALSE, outcome |-> "ignored", lost |-> NoNodeId]
    /\ UNCHANGED <<node_vars, flag_vars, snapshot_call, data_vars, last_request>>

Next ==
    \/ Tick
    \/ HeartbeatArrives
    \/ configure
    \/ activate
    \/ deactivate
    \/ cleanup
    \/ shutdown
    \/ LivelinessChanged
    \/ liveliness_callback

Spec == Init /\ [][Next]_vars

\* The node with the transition requests the lifecycle base class turns down:
\* every request in every state, the heartbeats and the liveliness events, at
\* one clock reading.
NextLifecycle ==
    \/ HeartbeatArrives
    \/ configure
    \/ activate
    \/ deactivate
    \/ cleanup
    \/ shutdown
    \/ rejected_request
    \/ LivelinessChanged
    \/ liveliness_callback

SpecLifecycle == Init /\ [][NextLifecycle]_vars

\* ------------------------------------------------- SpecCache: the cache alone
\* Heartbeats stamped before a heartbeat that arrived earlier.
LateArrivals(log) ==
    {i \in 1..Len(log) : \E j \in 1..(i - 1) : log[j].stamp > log[i].stamp}

\* The last n elements of a sequence.
LastN(s, n) == IF Len(s) <= n THEN s ELSE SubSeq(s, Len(s) - n + 1, Len(s))

InitCache == Init /\ running /\ ~autostart_ /\ ~enable_pub_

\* A second passes and the watched entity's next heartbeat arrives.
StreamHeartbeat ==
    /\ Len(arrivals) < CacheSize + MaxExtra
    /\ now' = now + 1
    /\ heartbeat_received(Heartbeat(1, now + 1))

\* A delayed heartbeat arrives: it was stamped before one already delivered.
LateHeartbeat ==
    /\ Len(arrivals) < CacheSize + MaxExtra
    /\ Cardinality(LateArrivals(arrivals)) < MaxLate
    /\ now > 0
    /\ \E sec \in {0, now - 1} : heartbeat_received(Heartbeat(1, sec))
    /\ now' = now

NextCache == StreamHeartbeat \/ LateHeartbeat

SpecCache == InitCache /\ [][NextCache]_vars

\* An auto-started node that publishes.
InitDiag == Init /\ running /\ autostart_ /\ enable_pub_

\* ------------------------- SpecSnapshot: the cache reads of line 114 one by one
\* A callback group in which callbacks may overlap.
can_be_taken_from_reentrant(pc) == TRUE

\* heartbeat_cache_sub and heartbeat_sub_ are created without a callback group,
\* so both are in the node's default, mutually exclusive group: the executor
\* takes a callback from it only while none of its callbacks is running.
can_be_taken_from(pc) == pc = "idle"

\* The cache subscription callback adds a heartbeat; a diagnosis that is reading
\* the cache meanwhile has one more cache content in its lifetime.
heartbeat_received_in_group(m) ==
    /\ running
    /\ can_be_taken_from(snapshot_call.pc)
    /\ heartbeat_cache' = cache_add(heartbeat_cache, m)
    /\ arrivals' = Append(arrivals, m)
    /\ snapshot_call' = [snapshot_call EXCEPT
                           !.held = IF snapshot_call.pc = "idle"
                                    THEN {}
                                    ELSE @ \cup {heartbeat_cache'}]
    /\ UNCHANGED <<running, node_vars, flag_vars, event_vars, last_request>>

\* A second passes and the watched entity's next heartbeat arrives.
SnapshotStreamHeartbeat ==
    /\ Len(arrivals) < CacheSize + MaxExtra
    /\ now' = now + 1
    /\ heartbeat_received_in_group(Heartbeat(1, now + 1))

\* A delayed heartbeat arrives: it was stamped before one already delivered.
SnapshotLateHeartbeat ==
    /\ Len(arrivals) < CacheSize + MaxExtra
    /\ Cardinality(LateArrivals(arrivals)) < MaxLate
    /\ now > 0
    /\ \E sec \in {0, now - 1} : heartbeat_received_in_group(Heartbeat(1, sec))
    /\ now' = now

\* The liveliness callback of heartbeat_sub_ is taken from the group and enters
\* check_messages_in_cache.
check_messages_in_cache_called ==
    /\ running
    /\ heartbeat_sub_
    /\ snapshot_call.pc = "idle"
    /\ snapshot_call' = [NoSnapshot EXCEPT !.pc = "args", !.held = {heartbeat_cache}]
    /\ UNCHANGED <<running, node_vars, flag_vars, event_vars, data_vars, last_request>>

\* The two arguments of getInterval are evaluated, in either order; each call
\* locks the cache for itself.
getOldestTime_called ==
    /\ snapshot_call.pc = "args"
    /\ snapshot_call.oldest = <<>>
    /\ snapshot_call' = [snapshot_call EXCEPT
                           !.oldest = <<getOldestTime(heartbeat_cache)>>,
                           !.pc = IF snapshot_call.latest = <<>> THEN "args" ELSE "interval"]
    /\ UNCHANGED <<running, node_vars, flag_vars, event_vars, data_vars, last_request>>

getLatestTime_called ==
    /\ snapshot_call.pc = "args"
    /\ snapshot_call.latest = <<>>
    /\ snapshot_call' = [snapshot_call EXCEPT
                           !.latest = <<getLatestTime(heartbeat_cache)>>,
                           !.pc = IF snapshot_call.oldest = <<>> THEN "args" ELSE "interval"]
    /\ UNCHANGED <<running, node_vars, flag_vars, event_vars, data_vars, last_request>>

\* getInterval copies the messages between the two times out of the cache.
getInterval_called ==
    /\ snapshot_call.pc = "interval"
    /\ snapshot_call' = [snapshot_call EXCEPT
                           !.messages = getInterval(heartbeat_cache, snapshot_call.oldest[1],
                                                    snapshot_call.latest[1]),
                           !.pc = "done"]
    /\ UNCHANGED <<running, node_vars, flag_vars, event_vars, data_vars, last_request>>

\* The diagnosis has worked on messages_in_cache and the callback returns.
check_messages_in_cache_returned ==
    /\ snapshot_call.pc = "done"
    /\ snapshot_call' = NoSnapshot
    /\ UNCHANGED <<running, node_vars, flag_vars, event_vars, data_vars, last_request>>

NextSnapshot ==
    \/ SnapshotStreamHeartbeat
    \/ SnapshotLateHeartbeat
    \/ check_messages_in_cache_called
    \/ getOldestTime_called
    \/ getLatestTime_called
    \/ getInterval_called
    \/ check_messages_in_cache_returned

SpecSnapshot == InitDiag /\ [][NextSnapshot]_vars

\* -------------------------------------- SpecDiag: diagnosis on many histories
\* A heartbeat of one of three entities, stamped with the current time, arrives.
DiagHeartbeat ==
    /\ Len(arrivals) < MaxDiagHeartbeats
    /\ \E id \in DiagEntityIds : heartbeat_received(Heartbeat(id, now))
    /\ now' = now

NextDiag == Tick \/ DiagHeartbeat \/ LivelinessChanged \/ liveliness_callback

SpecDiag == InitDiag /\ [][NextDiag]_vars

\* ======================================================== properties checked
\* A step of the liveliness callback, and the event it handles.
CallbackStep == handled' = handled + 1
HandledEvent == Head(pending)

\* The entities of a history and the stamps of one entity, in cache order.
Entities(cache) == {cache[i].checkpoint_id : i \in 1..Len(cache)}
Records(cache, e) == messages_of(cache, e)

\* Entities with at least two recorded heartbeats.
KnownCadence(cache) == {e \in Entities(cache) : Len(Records(cache, e)) >= 2}

\* Sum of the consecutive timestamp differences of an entity's records.
RECURSIVE SumOfDifferences(_)
SumOfDifferences(msgs) ==
    IF Len(msgs) < 2 THEN 0
    ELSE (msgs[2].stamp - msgs[1].stamp) + SumOfDifferences(Tail(msgs))

\* (t - last_seen) - mean_interval of entity e as the fraction ScoreNum / ScoreDen.
ScoreNum(cache, e, t) ==
    LET msgs == Records(cache, e)
    IN  (t - Last(msgs).stamp) * (Len(msgs) - 1) - SumOfDifferences(msgs)
ScoreDen(cache, e) == Len(Records(cache, e)) - 1

\* Entity e's score is at least entity f's.
ScoreAtLeast(cache, e, f, t) ==
    ScoreNum(cache, e, t) * ScoreDen(cache, f) >= ScoreNum(cache, f, t) * ScoreDen(cache, e)

\* The entities with known cadence whose score is the maximum.
MostOverdue(cache, t) ==
    {e \in KnownCadence(cache) : \A f \in KnownCadence(cache) : ScoreAtLeast(cache, e, f, t)}

\* The callback ran the diagnosis and the diagnosis returned a lost message.
DiagnosisReturned(l) ==
    l.diagnosed /\ l.outcome \in {"published", "publisher_disabled", "publish_on_null"}

\* --- C1 (stated as claimed; the code violates it)
\* A liveliness event handled in a lifecycle state other than Active is dropped:
\* it runs no diagnosis and hands no message to the sink.
C1_DroppedUnlessActive ==
    last.state \notin {"none", "Active"} =>
        /\ ~last.diagnosed
        /\ last.outcome \notin {"published", "publisher_disabled", "publish_on_null"}

\* --- C2 (stated as claimed; the code violates it)
\* A message reaches the sink only with publish_failures enabled and in the
\* Active state, and with publish_failures disabled publish_failure is never
\* even attempted.
C2_EmitOnlyEnabledAndActive ==
    /\ sink # <<>> => enable_pub_
    /\ last.outcome = "published" => enable_pub_ /\ last.state = "Active"
    /\ ~enable_pub_ =>
          last.outcome \notin {"published", "publisher_disabled", "publish_on_null"}

\* --- C3 (stated as claimed; the code violates it)
\* In Active with publishing enabled, when the history holds at least two
\* heartbeats of one entity e and none of any other, an event with
\* alive_count_change < 0 appends the notification {e, now} to the sink.
C3_EndToEndDetection ==
    [][ ( /\ CallbackStep
          /\ lifecycle_state = "Active"
          /\ enable_pub_
          /\ HandledEvent < 0
          /\ Cardinality(Entities(heartbeat_cache)) = 1
          /\ Len(heartbeat_cache) >= 2 )
        => \E e \in Entities(heartbeat_cache) :
              sink' = Append(sink, [missed_number |-> e, stamp |-> now]) ]_vars

\* --- C4 (stated as claimed; the code violates it)
\* An event handled in Active while the history is empty or holds one heartbeat
\* per entity publishes nothing and leaves the watchdog running in Active.
C4_NoEvidenceIsRecovered ==
    [][ ( /\ CallbackStep
          /\ lifecycle_state = "Active"
          /\ lost_liveliness(HandledEvent)
          /\ KnownCadence(heartbeat_cache) = {} )
        => /\ sink' = sink
           /\ ~DiagnosisReturned(last')
           /\ running'
           /\ lifecycle_state' = "Active" ]_vars

\* --- C5 (stated as claimed; the code violates it)
\* Every liveliness callback returns normally: after any number of handled
\* events the process is still running and no exception has left the callback.
C5_CallbackReturnsNormally ==
    handled > 0 => running /\ last.outcome # "out_of_range"

C7_OneNotificationPerEvent ==
    [][ /\ CallbackStep =>
              /\ sink' = sink \/ (Len(sink') = Len(sink) + 1 /\ SubSeq(sink', 1, Len(sink)) = sink)
              /\ (lifecycle_state = "Active" /\ enable_pub_ /\ DiagnosisReturned(last'))
                    => Len(sink') = Len(sink) + 1
        /\ sink' # sink => CallbackStep /\ lifecycle_state = "Active" ]_vars

\* C7 witness: an event handled in Active was published, and a later event was
\* handled without a second message for the first.
C7_Witness ==
    /\ handled = 2
    /\ Len(sink) = 1
    /\ last.state = "Active"
    /\ enable_pub_

\* --- C7 (as originally stated)
\* One handled event appends at most one message, and exactly one whenever it
\* is handled in Active and its diagnosis returns a lost message.
C7_ExactlyOneOnSuccess ==
    [][ /\ CallbackStep =>
              /\ sink' = sink \/ (Len(sink') = Len(sink) + 1 /\ SubSeq(sink', 1, Len(sink)) = sink)
              /\ (lifecycle_state = "Active" /\ DiagnosisReturned(last'))
                    => Len(sink') = Len(sink) + 1
        /\ sink' # sink => CallbackStep /\ lifecycle_state = "Active" ]_vars

\* --- C8 (stated as claimed; the code violates it)
\* When the diagnosis returns a lost message and some entity has at least two
\* records, the diagnosed entity is one of those with the maximal
\* (now - last_seen) - mean_interval.
C8_MostOverdueSelected ==
    [][ ( /\ CallbackStep
          /\ DiagnosisReturned(last')
          /\ KnownCadence(heartbeat_cache) # {} )
        => last'.lost \in MostOverdue(heartbeat_cache, now) ]_vars

\* --- C9 (stated as claimed; the code violates it)
\* When the diagnosis returns a lost message and two or more entities share the
\* maximal score, the diagnosed entity is the one with the smallest id.
C9_TieBreakSmallerId ==
    [][ ( /\ CallbackStep
          /\ DiagnosisReturned(last')
          /\ Cardinality(MostOverdue(heartbeat_cache, now)) >= 2 )
        => last'.lost = Min(MostOverdue(heartbeat_cache, now)) ]_vars

\* --- C10
\* shutdown() is enabled in every non-Finalized state of the running node; in
\* Finalized the subscription and the failure sink are released; and no step
\* leaves Finalized.
C10_FinalizedTerminal ==
    /\ [](running /\ lifecycle_state # "Finalized" => ENABLED shutdown)
    /\ [](lifecycle_state = "Finalized" => ~heartbeat_sub_ /\ failure_pub_ = "null")
    /\ [][lifecycle_state = "Finalized" => lifecycle_state' = "Finalized"]_vars

\* C10 witness: shutdown taken from Active with the failure publisher in use.
C10_Witness ==
    /\ lifecycle_state = "Finalized"
    /\ enable_pub_
    /\ cache_callbacks >= 1
    /\ sink # <<>>

\* --- C12 (stated as claimed; the code violates it)
\* The history changes only while the watchdog is Active.
C12_IngestOnlyWhileActive ==
    [][lifecycle_state # "Active" => heartbeat_cache' = heartbeat_cache]_vars

\* --- C13 (stated as claimed; the code violates it)
\* cleanup() moves Inactive to Unconfigured, releases the failure sink and
\* leaves an empty history, so that no earlier heartbeat is seen by a later
\* diagnosis.
C13_CleanupReleasesHistory ==
    [][ (lifecycle_state = "Inactive" /\ lifecycle_state' = "Unconfigured")
        => failure_pub_' = "null" /\ heartbeat_cache' = <<>> ]_vars

\* --- C16
\* With publish_failures enabled the failure publisher is activated exactly
\* while the state is Active and stays allocated in Inactive and Active, across
\* any number of activations; activate() and deactivate() never leave it null;
\* and in Active a diagnosis that returns a lost message is published.
C16_SinkDisabledNotReleased ==
    /\ [](enable_pub_ =>
            /\ failure_pub_ = "activated" <=> lifecycle_state = "Active"
            /\ lifecycle_state \in {"Inactive", "Active"} => failure_pub_ # "null")
    /\ [][ /\ (enable_pub_ /\ lifecycle_state = "Active" /\ lifecycle_state' = "Inactive")
              => failure_pub_ = "activated" /\ failure_pub_' = "inactive"
           /\ (enable_pub_ /\ lifecycle_state = "Inactive" /\ lifecycle_state' = "Active")
              => failure_pub_ = "inactive" /\ failure_pub_' = "activated"
           /\ (CallbackStep /\ enable_pub_ /\ lifecycle_state = "Active"
                 /\ DiagnosisReturned(last'))
              => sink' = Append(sink, [missed_number |-> last'.lost, stamp |-> now]) ]_vars

\* C16 witness: after a second activation without a new configure a diagnosis
\* was published.
C16_Witness ==
    /\ enable_pub_
    /\ ~autostart_
    /\ cache_callbacks = 2
    /\ lifecycle_state = "Active"
    /\ failure_pub_ = "activated"
    /\ last.outcome = "published"
    /\ sink # <<>>

\* --- C17 (stated as claimed; the code violates it)
\* publish_failure never runs with a null failure_pub_.
C17_PublishOnAllocatedSink == last.outcome # "publish_on_null"

\* --- C18
\* heartbeat_sub_ exists exactly when the lifecycle state is Active.
C18_SubscriptionIffActive == heartbeat_sub_ <=> lifecycle_state = "Active"

\* C18 witness: the subscription created by a second activation, after a
\* deactivation destroyed the first.
C18_Witness ==
    /\ ~autostart_
    /\ cache_callbacks = 2
    /\ lifecycle_state = "Active"
    /\ heartbeat_sub_

\* --- C19 (stated as claimed; the code violates it)
\* The cache calls every registered callback once per added heartbeat: one
\* callback is registered while Active and none otherwise.
C19_OneCacheCallback ==
    cache_callbacks = IF lifecycle_state = "Active" THEN 1 ELSE 0

\* --- C20
\* The callback runs the diagnosis exactly for events with
\* alive_count_change <= 0; an event with a positive change leaves the sink,
\* the history, the lifecycle state and the process as they were.
C20_PositiveChangeIgnored ==
    [][ CallbackStep =>
          /\ last'.diagnosed <=> HandledEvent <= 0
          /\ HandledEvent > 0 =>
                /\ last'.outcome = "ignored"
                /\ sink' = sink
                /\ heartbeat_cache' = heartbeat_cache
                /\ lifecycle_state' = lifecycle_state
                /\ running' = running ]_vars

\* C20 witness: an event with a positive change was handled in Active with a
\* heartbeat of the sentinel id cached, and nothing was published.
C20_Witness ==
    /\ last.change = 1
    /\ last.state = "Active"
    /\ last.outcome = "ignored"
    /\ enable_pub_
    /\ \E i \in 1..Len(heartbeat_cache) : heartbeat_cache[i].checkpoint_id = NoNodeId
    /\ sink = <<>>


\* --- C11: activate() requested while the node is Unconfigured fails with a
\* state-mismatch error: the result is ERROR, the node stays Unconfigured, no
\* heartbeat subscription is created and the failure sink is left as it was.
C11_ActivateBeforeConfigureFails ==
    [][ (lifecycle_state = "Unconfigured" /\ last_request'.request = "activate")
          => /\ last_request'.result = "ERROR"
             /\ lifecycle_state' = "Unconfigured"
             /\ ~heartbeat_sub_'
             /\ heartbeat_sub_' = heartbeat_sub_
             /\ failure_pub_' = failure_pub_
             /\ cache_callbacks' = cache_callbacks ]_vars

\* activate() was turned down in Unconfigured, after the node had been
\* configured and cleaned up again.
C11_Witness ==
    /\ last_request = [request |-> "activate", result |-> "ERROR"]
    /\ lifecycle_state = "Unconfigured"
    /\ ~autostart_
    /\ enable_pub_
    /\ arrivals # <<>>
    /\ ~heartbeat_sub_
    /\ failure_pub_ = "null"

\* --- C14: after construction, before any heartbeat, liveliness event or
\* transition request is handled, an auto-started node is Active with its
\* heartbeat subscription created and, when publishing is enabled, its failure
\* sink allocated and enabled; a node without auto-start is Unconfigured, with
\* no subscription and no failure sink.
C14_AutostartReachesActive ==
    (running /\ last_request = NoRequest /\ arrivals = <<>> /\ handled = 0)
      => IF autostart_
         THEN /\ lifecycle_state = "Active"
              /\ heartbeat_sub_
              /\ cache_callbacks = 1
              /\ failure_pub_ = IF enable_pub_ THEN "activated" ELSE "null"
         ELSE /\ lifecycle_state = "Unconfigured"
              /\ ~heartbeat_sub_
              /\ cache_callbacks = 0
              /\ failure_pub_ = "null"

\* An auto-started, publishing node on which a liveliness event has been raised
\* but nothing has been handled yet.
C14_Witness ==
    /\ running
    /\ autostart_
    /\ enable_pub_
    /\ last_request = NoRequest
    /\ arrivals = <<>>
    /\ handled = 0
    /\ pending # <<>>
    /\ now > 0
    /\ lifecycle_state = "Active"
    /\ heartbeat_sub_
    /\ failure_pub_ = "activated"

\* s is a subsequence of log: its elements occur in log in the same order.
RECURSIVE IsSubSeq(_, _)
IsSubSeq(s, log) ==
    IF s = <<>> THEN TRUE
    ELSE IF log = <<>> THEN FALSE
    ELSE IF Head(s) = Head(log) THEN IsSubSeq(Tail(s), Tail(log))
    ELSE IsSubSeq(s, Tail(log))

====
